---------------------------- MODULE Spec2Model ----------------------------
(***************************************************************************)
(* Model of scintillometry/integration.py: the frame engine IntegrateBase  *)
(* (_read_frame, _integrate) and its specialisations Integrate, Fold and   *)
(* Stack, run against an underlying stream `ih` that is sought, read       *)
(* through a push-style sink and asked for its position.                   *)
(*                                                                         *)
(* Arithmetic is exact: a step, a phase and an average are rationals kept  *)
(* as integers over a stated denominator, and numpy's round() is           *)
(* round-half-to-even on them.  Python arrays are 0-based; the sequences   *)
(* here are 1-based, so offsets o[0..n] is offs[1..n+1] and bin b is       *)
(* index b+1.                                                              *)
(***************************************************************************)
EXTENDS Integers, Sequences, FiniteSets, TLC

VARIABLES
    sc,           \* the stream and the constructor arguments used on it
    pc,           \* "new" | "idle" | "goff" | "reading" | "done" | "error" |
                  \* "stop_sought" | "hang"
    eng,          \* the constructed engine: its class, self.average, the dtype argument
    last_offset,  \* Integrate._last_offset
    last_phase,   \* Integrate._last_phase
    goff,         \* locals of a running phase-driven _get_offsets
    ih_pos,       \* the underlying stream's position (ih.tell())
    raw_time,     \* Fold._raw_time, as the stream offset whose time it is
    resolved,     \* what _get_offsets returned for the current frame request
    offsets,      \* self._offsets (normalised)
    result,       \* self._result
    count,        \* self._count
    rd,           \* the running read: frame index, relative position, calls made
    returned,     \* the frame the last request returned (NoFrame: none)
    err,          \* the exception the last request ended with ("" : none)
    tally,        \* fixed-rate Integrate: frames 0..next-1 were read in this order
                  \* since construction, and the sum of their counts
    old,          \* the last frame of the engine constructed before this one,
                  \* kept when that was an Integrate or Fold in sum mode
    stime         \* Integrate.stop_time: the memoized value, the locals of a
                  \* running evaluation, and how the last access ended

vars == <<sc, pc, eng, last_offset, last_phase, goff, ih_pos, raw_time,
          resolved, offsets, result, count, rd, returned, err, tally, old, stime>>

NoFrame == <<>>
NoEngine == [cls |-> "none", average |-> FALSE, dtype |-> "unset"]
NoGoff == [active |-> FALSE]

-----------------------------------------------------------------------------
(* Arithmetic helpers *)

RECURSIVE Pow(_, _)
Pow(b, e) == IF e = 0 THEN 1 ELSE b * Pow(b, e - 1)

RECURSIVE Gcd(_, _)
Gcd(a, b) == IF b = 0 THEN a ELSE Gcd(b, a % b)

Abs(x) == IF x < 0 THEN -x ELSE x

\* numpy round(): the integer nearest to num/den (den > 0), halves to even.
RoundHalfEven(num, den) ==
    LET q == num \div den
        r == num % den
    IN  IF 2 * r < den THEN q
        ELSE IF 2 * r > den THEN q + 1
        ELSE IF q % 2 = 0 THEN q ELSE q + 1

\* Elementwise true division of a float sum by an integer count: x/0 is
\* nan for x = 0 and +-inf otherwise; a finite quotient is kept in lowest terms.
Div(s, c) ==
    IF c = 0
    THEN IF s = 0 THEN [kind |-> "nan", num |-> 0, den |-> 0]
         ELSE IF s > 0 THEN [kind |-> "inf", num |-> 1, den |-> 0]
         ELSE [kind |-> "inf", num |-> -1, den |-> 0]
    ELSE LET g == Gcd(Abs(s), c)
         IN  [kind |-> "num", num |-> s \div g, den |-> c \div g]

NaN == [kind |-> "nan", num |-> 0, den |-> 0]

-----------------------------------------------------------------------------
(* The underlying stream *)

\* Sample a of the stream (sample shape (), dtype float).
Data(kind, a) ==
    IF kind = "pow" THEN Pow(3, a)
    ELSE IF kind = "lin" THEN a
    ELSE 1

RECURSIVE SumData(_, _, _)
SumData(kind, lo, hi) ==
    IF lo >= hi THEN 0 ELSE Data(kind, lo) + SumData(kind, lo + 1, hi)

\* phase(ih.start_time + a / ih.sample_rate), in units of 1/cyc cycle.
Phase(s, a) == s.P0 + s.DP * a


-----------------------------------------------------------------------------
(* Construction: shapes and rates *)

StepNum(s) == s.step[1]
StepDen(s) == s.step[2]

\* samples_per_frame of the engine that integrates: Stack hands
\* samples_per_frame * n_phase to the Integrate it composes.
InnerSpf(s) == IF s.cls = "Stack" THEN s.spf * s.n_phase ELSE s.spf

\* shape[0] of the integrating engine, int((stop - start) / step): in time
\* (step in input samples) or in phase (step in phase units).
Shape0(s) ==
    IF s.phased
    THEN ((Phase(s, s.M) - Phase(s, 0)) * StepDen(s)) \div StepNum(s)
    ELSE (s.M * StepDen(s)) \div StepNum(s)

\* Stack's shape[0]: whole profiles only.
StackRows(s) == Shape0(s) \div s.n_phase

\* Frames the engine's output holds (the last one may be partial).
NumFrames(s) ==
    LET n == IF s.cls = "Stack" THEN StackRows(s) ELSE Shape0(s)
    IN  (n + s.spf - 1) \div s.spf

\* As OutDtype, with the dtype argument replaced by the default of the mode.
OutDtype_Defaulted(average, dtype) == IF average THEN "float" ELSE "struct"

\* dtype of the output array: the default follows `average`.
OutDtype(average, dtype) ==
    IF dtype = "None" THEN (IF average THEN "float" ELSE "struct") ELSE dtype

-----------------------------------------------------------------------------
(* Integrate._get_offsets, fixed rate *)

\* As FixedOffset, with halves rounded up.
FixedOffset_HalfUp(s, i) == (2 * i * StepNum(s) + StepDen(s)) \div (2 * StepDen(s))

\* As FixedOffset, with the quotient truncated (astype(int) without round).
FixedOffset_Truncated(s, i) == (i * StepNum(s)) \div StepDen(s)

FixedOffset(s, i) == RoundHalfEven(i * StepNum(s), StepDen(s))

\* samples = frame_index * samples_per_frame + arange(samples_per_frame + 1)
FrameSamples(s, f) == [k \in 1..(InnerSpf(s) + 1) |-> f * InnerSpf(s) + k - 1]

FixedOffsets(s, samples) == [k \in DOMAIN samples |-> FixedOffset(s, samples[k])]

\* As Normalise, with the offsets left absolute.
Normalise_Absolute(offs) == offs

\* offsets -= offsets[0]
Normalise(offs) == [k \in DOMAIN offs |-> offs[k] - offs[1]]

-----------------------------------------------------------------------------
(* IntegrateBase._integrate *)

\* np.searchsorted(arr, key, side): numpy's binary search, 0-based result.
RECURSIVE BinSearch(_, _, _, _, _)
BinSearch(arr, key, lo, hi, side) ==
    IF lo >= hi THEN lo
    ELSE LET mid == lo + ((hi - lo) \div 2)
             goRight == IF side = "left" THEN arr[mid + 1] < key
                        ELSE arr[mid + 1] <= key
         IN  IF goRight THEN BinSearch(arr, key, mid + 1, hi, side)
             ELSE BinSearch(arr, key, lo, mid, side)

SearchSorted(arr, key, side) == BinSearch(arr, key, 0, Len(arr), side)

\* np.add.reduceat(data, idx) for the slice data = stream[base .. base+n-1]:
\* segment k is data[idx[k] : idx[k+1]] (the last one runs to the end), and a
\* segment whose end is not beyond its start is the single element data[idx[k]].
ReduceAt(kind, base, n, idx) ==
    [k \in DOMAIN idx |->
        LET lo == idx[k]
            hi == IF k < Len(idx) THEN idx[k + 1] ELSE n
        IN  IF lo < hi THEN SumData(kind, base + lo, base + hi)
            ELSE Data(kind, base + lo)]

\* As IntegrateBase_integrate, with the counts of the touched bins assigned
\* (=) where the code accumulates (+=).
IntegrateBase_integrate_CountAssigned(offs, s, e, base, kind, res, cnt) ==
    LET n == Len(offs) - 1
        start == SearchSorted(SubSeq(offs, 2, n + 1), s, "right")
        stop == SearchSorted(SubSeq(offs, 1, n), e, "left")
        len == IF stop + 1 > start THEN stop + 1 - start ELSE 0
        indices == [k \in 1..len |->
                       IF k = len THEN e - s
                       ELSE IF k = 1 THEN 0
                       ELSE offs[start + k] - s]
        head == [k \in 1..(len - 1) |-> indices[k]]
        inRange == \A k \in 1..(len - 1) : head[k] >= 0 /\ head[k] < e - s
    IN  IF len = 0 \/ ~inRange
        THEN [ok |-> FALSE, result |-> res, count |-> cnt]
        ELSE LET red == ReduceAt(kind, base + s, e - s, head)
             IN  [ok |-> TRUE,
                  result |-> [b \in DOMAIN res |->
                      IF b > start /\ b <= stop
                      THEN res[b] + red[b - start] ELSE res[b]],
                  count |-> [b \in DOMAIN cnt |->
                      IF b > start /\ b <= stop
                      THEN indices[b - start + 1] - indices[b - start]
                      ELSE cnt[b]]]

\* As IntegrateBase_integrate, with the first bin of a slice searched with
\* side='left' where the code has side='right'.
IntegrateBase_integrate_StartLeft(offs, s, e, base, kind, res, cnt) ==
    LET n == Len(offs) - 1
        start == SearchSorted(SubSeq(offs, 2, n + 1), s, "left")
        stop == SearchSorted(SubSeq(offs, 1, n), e, "left")
        len == IF stop + 1 > start THEN stop + 1 - start ELSE 0
        indices == [k \in 1..len |->
                       IF k = len THEN e - s
                       ELSE IF k = 1 THEN 0
                       ELSE offs[start + k] - s]
        head == [k \in 1..(len - 1) |-> indices[k]]
        inRange == \A k \in 1..(len - 1) : head[k] >= 0 /\ head[k] < e - s
    IN  IF len = 0 \/ ~inRange
        THEN [ok |-> FALSE, result |-> res, count |-> cnt]
        ELSE LET red == ReduceAt(kind, base + s, e - s, head)
             IN  [ok |-> TRUE,
                  result |-> [b \in DOMAIN res |->
                      IF b > start /\ b <= stop
                      THEN res[b] + red[b - start] ELSE res[b]],
                  count |-> [b \in DOMAIN cnt |->
                      IF b > start /\ b <= stop
                      THEN cnt[b] + (indices[b - start + 1] - indices[b - start])
                      ELSE cnt[b]]]

\* The callback for the slice [s, e) of the frame, whose first sample is
\* stream sample base + s.  Returns the new sums and counts, or ok = FALSE
\* where numpy raises IndexError.
IntegrateBase_integrate(offs, s, e, base, kind, res, cnt) ==
    LET n == Len(offs) - 1
        start == SearchSorted(SubSeq(offs, 2, n + 1), s, "right")
        stop == SearchSorted(SubSeq(offs, 1, n), e, "left")
        len == IF stop + 1 > start THEN stop + 1 - start ELSE 0
        \* offsets[start:stop + 1] - item.start, then [0] = 0, then [-1] = length
        indices == [k \in 1..len |->
                       IF k = len THEN e - s
                       ELSE IF k = 1 THEN 0
                       ELSE offs[start + k] - s]
        head == [k \in 1..(len - 1) |-> indices[k]]
        inRange == \A k \in 1..(len - 1) : head[k] >= 0 /\ head[k] < e - s
    IN  IF len = 0 \/ ~inRange
        THEN [ok |-> FALSE, result |-> res, count |-> cnt]
        ELSE LET red == ReduceAt(kind, base + s, e - s, head)
             IN  [ok |-> TRUE,
                  result |-> [b \in DOMAIN res |->
                      IF b > start /\ b <= stop
                      THEN res[b] + red[b - start] ELSE res[b]],
                  count |-> [b \in DOMAIN cnt |->
                      IF b > start /\ b <= stop
                      THEN cnt[b] + (indices[b - start + 1] - indices[b - start])
                      ELSE cnt[b]]]

-----------------------------------------------------------------------------
(* Fold._integrate *)

\* As PhaseIndex, with the conversion to int rounding to nearest.
PhaseIndex_Rounded(s, p) ==
    RoundHalfEven((p * s.n_phase) % (s.n_phase * s.cyc), s.cyc) % s.n_phase

\* ((phases.to_value(u.cycle) * n_phase) % n_phase).astype(int), for a phase
\* of p/cyc cycles: Python's % takes the sign of the divisor.
PhaseIndex(s, p) == ((p * s.n_phase) % (s.n_phase * s.cyc)) \div s.cyc

\* sample_index of frame-relative sample r.
SampleIndex(s, offs, r) ==
    IF s.spf = 1 THEN 0
    ELSE SearchSorted(SubSeq(offs, 2, Len(offs)), r, "left")

\* a[si, pi] += v
AddAt(a, si, pi, v) ==
    [b \in DOMAIN a |-> [q \in DOMAIN a[b] |->
        IF b = si /\ q = pi THEN a[b][q] + v ELSE a[b][q]]]

\* np.add.at over raw_items = arange(r, e), one sample after the other.
RECURSIVE FoldAdd(_, _, _, _, _, _, _, _)
FoldAdd(s, offs, r, e, base, rawt, res, cnt) ==
    IF r >= e THEN [ok |-> TRUE, result |-> res, count |-> cnt]
    ELSE LET si == SampleIndex(s, offs, r) + 1
             pi == PhaseIndex(s, Phase(s, rawt + r)) + 1
         IN  IF si \notin DOMAIN res \/ pi \notin DOMAIN res[si]
             THEN [ok |-> FALSE, result |-> res, count |-> cnt]
             ELSE FoldAdd(s, offs, r + 1, e, base, rawt,
                          AddAt(res, si, pi, Data(s.data, base + r)),
                          AddAt(cnt, si, pi, 1))

Fold_integrate(s, offs, r, e, base, rawt, res, cnt) ==
    FoldAdd(s, offs, r, e, base, rawt, res, cnt)

-----------------------------------------------------------------------------
(* Integrate._get_offsets, phase driven *)

\* Numerator over StepDen of the target phase self._start + index / sample_rate.
TargetPhase(s, i) == s.P0 * StepDen(s) + i * StepNum(s)

\* ((phase - p) * sample_rate * _ih_mean_sample_per_sample).round(), with
\* _ih_mean_sample_per_sample = ih.shape[0] / shape[0].
StepCheck(s, target, p) ==
    RoundHalfEven((target - p * StepDen(s)) * s.M, StepNum(s) * Shape0(s))

\* The indices selected by mask = check != 0, in order.
Masked(check) ==
    SelectSeq([k \in DOMAIN check |-> k], LAMBDA k : check[k] # 0)

AnyMask(check) == \E k \in DOMAIN check : check[k] # 0

\* The locals on entry, before the while loop.  seen collects the (offsets,
\* check) pairs the loop has been in: a pass that leads back to one of them
\* repeats from there for ever, the pass being a function of the pair.
GetOffsetsEntry(s, samples, lastOff, lastPh) ==
    [active |-> TRUE,
     seen |-> {},
     samples |-> samples,
     isArray |-> FALSE,
     offsets |-> [k \in DOMAIN samples |-> lastOff],
     check |-> [k \in DOMAIN samples |->
                   StepCheck(s, TargetPhase(s, samples[k]), lastPh)],
     ih_phase |-> <<>>]

\* One pass of the while loop.
GetOffsetsPass(s, g) ==
    LET offs == [k \in DOMAIN g.offsets |-> g.offsets[k] + g.check[k]]
        m == Masked(g.check)
    IN  [g EXCEPT
            !.isArray = TRUE,
            !.offsets = offs,
            !.ih_phase = [j \in DOMAIN m |-> Phase(s, offs[m[j]])],
            !.check = [k \in DOMAIN g.check |->
                IF g.check[k] # 0
                THEN StepCheck(s, TargetPhase(s, g.samples[k]), Phase(s, offs[k]))
                ELSE 0]]

-----------------------------------------------------------------------------
(* IntegrateBase._read_frame: buffers and finalisation *)

Zeros(s) ==
    IF s.cls = "Fold"
    THEN [b \in 1..s.spf |-> [q \in 1..s.n_phase |-> 0]]
    ELSE [b \in 1..InnerSpf(s) |-> 0]

\* out /= self._count
Averaged(s, res, cnt) ==
    IF s.cls = "Fold"
    THEN [b \in DOMAIN res |-> [q \in DOMAIN res[b] |-> Div(res[b][q], cnt[b][q])]]
    ELSE [b \in DOMAIN res |-> Div(res[b], cnt[b])]

\* The structured array whose fields data and count are the buffers.
Structured(s, res, cnt) ==
    IF s.cls = "Fold"
    THEN [b \in DOMAIN res |->
            [q \in DOMAIN res[b] |-> [data |-> res[b][q], count |-> cnt[b][q]]]]
    ELSE [b \in DOMAIN res |-> [data |-> res[b], count |-> cnt[b]]]

\* As Reshape, filling column by column (order='F').
Reshape_ColumnMajor(flat, rows, cols) ==
    [r \in 1..rows |-> [p \in 1..cols |-> flat[(p - 1) * rows + r]]]

\* out.reshape((samples_per_frame,) + sample_shape), row-major.
Reshape(flat, rows, cols) ==
    [r \in 1..rows |-> [p \in 1..cols |-> flat[(r - 1) * cols + p]]]

\* What the engine hands back for the finished buffer.
FrameOut(s, average, res, cnt) ==
    LET out == IF average THEN Averaged(s, res, cnt) ELSE Structured(s, res, cnt)
    IN  IF s.cls = "Stack" THEN Reshape(out, s.spf, s.n_phase) ELSE out

-----------------------------------------------------------------------------
(* Streams and constructor arguments explored *)

MaxSamples == 10
MaxPerFrame == 3

Sc(classes, phased, M, data, step, spf, n_phase, cyc, P0, DP, dtypes) ==
    [classes |-> classes, phased |-> phased, M |-> M, data |-> data,
     step |-> step, spf |-> spf, n_phase |-> n_phase, cyc |-> cyc,
     P0 |-> P0, DP |-> DP, dtypes |-> dtypes]

StreamLens == {MaxSamples - 4, MaxSamples}

\* Integrate(ih, step): an integer step, and time steps of M/3 and 5/2 samples.
FixedScenarios ==
    { Sc({"Integrate"}, FALSE, M, "pow", st, spf, 1, 1, 0, 0, {"None"}) :
        M \in StreamLens, st \in {<<3, 1>>, <<5, 2>>}, spf \in 1..MaxPerFrame }
    \cup
    { Sc({"Integrate"}, FALSE, M, "pow", <<M, 3>>, spf, 1, 1, 0, 0, {"None"}) :
        M \in StreamLens, spf \in 1..MaxPerFrame }

\* Bins of widths 3, 3, 4; steps below one input sample; every dtype argument.
SpecialScenarios ==
    { Sc({"Integrate"}, FALSE, 10, "pow", <<16, 5>>, 3, 1, 1, 0, 0, {"None"}),
      Sc({"Integrate"}, FALSE, 4, "pow", <<1, 2>>, 5, 1, 1, 0, 0, {"None"}),
      Sc({"Integrate"}, FALSE, 4, "lin", <<2, 3>>, 3, 1, 1, 0, 0, {"None"}),
      Sc({"Integrate"}, FALSE, 4, "pow", <<2, 1>>, 1, 1, 1, 0, 0,
         {"None", "float", "int", "struct"}) }

\* Fold(ih, n_phase, phase, step): a constant phase (bin 2 of 4, cycle 3),
\* and a phase that starts negative and advances 3/8 cycle per sample.
FoldScenarios ==
    { Sc({"Fold"}, FALSE, 10, "pow", <<5, 1>>, 1, 4, 4, 14, 0, {"None"}),
      Sc({"Fold"}, FALSE, 8, "pow", <<4, 1>>, 1, 4, 8, -3, 3, {"None"}),
      Sc({"Fold"}, FALSE, 8, "pow", <<4, 1>>, 2, 4, 8, -3, 3, {"None"}),
      Sc({"Fold"}, FALSE, 4, "lin", <<2, 1>>, 1, 2, 2, -5, 1,
         {"None", "float", "int", "struct"}) }

\* Integrate(ih, cycle/n_phase, phase) and Stack(ih, n_phase, phase) on a
\* phase of 1/6 cycle per sample: 2 or 3 half-cycle bins with one row per
\* frame, and a Stack of 4 half-cycle bins with two rows per frame; and
\* Integrate(ih, 5/12 cycle, phase) on the same phase, where the stream holds
\* 2.4 bins.
PhaseScenarios ==
    { Sc({"Integrate", "Stack"}, TRUE, M, "pow", <<12, 2>>, 1, 2, 12, 0, 2,
         {"None"}) : M \in {MaxSamples - 4, MaxSamples - 1} }
    \cup
    { Sc({"Stack"}, TRUE, MaxSamples + 2, "pow", <<12, 2>>, 2, 2, 12, 0, 2,
         {"None"}) }
    \cup
    { Sc({"Integrate"}, TRUE, MaxSamples - 4, "pow", <<5, 1>>, 1, 1, 12, 0, 2,
         {"None"}) }

Scenarios ==
    FixedScenarios \cup SpecialScenarios \cup FoldScenarios \cup PhaseScenarios

\* The constructor arguments of engine e on the stream of scenario s.
Args(s, e) ==
    [cls |-> e.cls, phased |-> s.phased, M |-> s.M, data |-> s.data,
     step |-> s.step, spf |-> s.spf, n_phase |-> s.n_phase, cyc |-> s.cyc,
     P0 |-> s.P0, DP |-> s.DP]

Cfg == Args(sc, eng)

-----------------------------------------------------------------------------
(* State machine *)

NoRead == [f |-> -1, pos |-> 0, calls |-> 0]
NoOld == [eng |-> NoEngine, f |-> -1, out |-> NoFrame, count |-> <<>>]
NoTally == [next |-> 0, counts |-> 0]

\* No stop_time in the instance __dict__ and none being evaluated.  memo is
\* the stream offset whose time is memoized (-1: none); searched tells that
\* a search of stop_time has assigned _last_offset; last is how the last
\* access ended.
NoStop ==
    [active |-> FALSE, back |-> "idle", pos0 |-> 0, raw_offset |-> 0,
     raw_stop |-> 0, memo |-> -1, searched |-> FALSE, last |-> "none"]

Init ==
    /\ sc \in Scenarios
    /\ pc = "new"
    /\ eng = NoEngine
    /\ last_offset = 0
    /\ last_phase = 0
    /\ goff = NoGoff
    /\ ih_pos = 0
    /\ raw_time = 0
    /\ resolved = <<>>
    /\ offsets = <<>>
    /\ result = <<>>
    /\ count = <<>>
    /\ rd = NoRead
    /\ returned = NoFrame
    /\ err = ""
    /\ tally = NoTally
    /\ old = NoOld
    /\ stime = NoStop

Resting == pc \in {"idle", "done", "error"}

\* Integrate.__init__ / Fold.__init__ / Stack.__init__ on the (re)opened
\* stream: the arguments are stored and the search state initialised; dtype
\* is passed on as it is.  The new object has no frame attributes yet.
Construct(cls, average, dtype) ==
    /\ pc = "new" \/ Resting
    /\ eng' = [cls |-> cls, average |-> average, dtype |-> dtype]
    /\ last_offset' = 0
    /\ last_phase' = Phase(sc, 0)
    /\ old' = IF returned # NoFrame /\ ~eng.average /\ eng.cls # "Stack"
              THEN [eng |-> eng, f |-> rd.f, out |-> returned, count |-> count]
              ELSE NoOld
    /\ tally' = NoTally
    /\ pc' = "idle"
    /\ returned' = NoFrame
    /\ err' = ""
    /\ goff' = NoGoff
    /\ rd' = NoRead
    /\ ih_pos' = 0
    /\ raw_time' = 0
    /\ resolved' = <<>>
    /\ offsets' = <<>>
    /\ result' = <<>>
    /\ count' = <<>>
    /\ stime' = NoStop
    /\ UNCHANGED sc

\* Lines 71-92 of _read_frame: seek, normalise, allocate, start the read.
\* In sum mode a dtype without a data field fails at out['data'].
EnterRead(f, offs) ==
    /\ resolved' = offs
    /\ ih_pos' = offs[1]
    /\ IF ~eng.average /\ OutDtype(eng.average, eng.dtype) # "struct"
       THEN /\ pc' = "error"
            /\ err' = "IndexError"
            /\ rd' = [f |-> f, pos |-> 0, calls |-> 0]
            /\ UNCHANGED <<offsets, result, count>>
       ELSE /\ pc' = "reading"
            /\ err' = ""
            /\ offsets' = Normalise(offs)
            /\ result' = Zeros(Cfg)
            /\ count' = Zeros(Cfg)
            /\ rd' = [f |-> f, pos |-> 0, calls |-> 1]

\* _read_frame(frame_index) with no phase function: offsets are computed at once.
\* Fold first seeks to the frame's first offset and records its time.
ReadFrame(f) ==
    /\ Resting
    /\ ~sc.phased
    /\ returned' = NoFrame
    /\ raw_time' = IF eng.cls = "Fold" THEN FixedOffset(Cfg, f * sc.spf) ELSE raw_time
    /\ EnterRead(f, FixedOffsets(Cfg, FrameSamples(Cfg, f)))
    /\ UNCHANGED <<sc, eng, stime, last_offset, last_phase, goff, tally, old>>

\* _read_frame(frame_index) with a phase function: enter _get_offsets.
ReadFramePhased(f) ==
    /\ Resting
    /\ sc.phased
    /\ returned' = NoFrame
    /\ err' = ""
    /\ goff' = GetOffsetsEntry(Cfg, FrameSamples(Cfg, f), last_offset, last_phase)
    /\ rd' = [f |-> f, pos |-> 0, calls |-> 0]
    /\ pc' = "goff"
    /\ UNCHANGED <<sc, eng, stime, last_offset, last_phase, ih_pos, raw_time, resolved,
                   offsets, result, count, tally, old>>

\* while np.any(mask): one pass.  The loop has no other exit: when the pass
\* returns to a pair it has left before, the call never returns.
GetOffsetsLoop ==
    /\ pc = "goff"
    /\ AnyMask(goff.check)
    /\ LET g == GetOffsetsPass(Cfg, goff)
           been == goff.seen \cup {<<goff.offsets, goff.check>>}
       IN  /\ goff' = [g EXCEPT !.seen = been]
           /\ pc' = IF <<g.offsets, g.check>> \in been THEN "hang" ELSE pc
    /\ UNCHANGED <<sc, eng, stime, last_offset, last_phase, ih_pos, raw_time,
                   resolved, offsets, result, count, rd, returned, err, tally, old>>

\* _last_offset is still the Python int 0 of __init__: no search of this
\* engine has assigned offsets[-1] to it.
LastOffsetIsInt == resolved = <<>> /\ ~stime.searched

\* Lines 232-234: record the search state and return to _read_frame.  With no
\* pass made, offsets is still the scalar _last_offset and offsets[-1] raises:
\* TypeError for the int 0 of __init__, IndexError for the numpy integer that
\* an earlier search of this engine has left.
GetOffsetsReturn ==
    /\ pc = "goff"
    /\ ~stime.active
    /\ ~AnyMask(goff.check)
    /\ goff' = NoGoff
    /\ returned' = NoFrame
    /\ IF ~goff.isArray
       THEN /\ pc' = "error"
            /\ err' = IF LastOffsetIsInt THEN "TypeError" ELSE "IndexError"
            /\ UNCHANGED <<last_offset, last_phase, ih_pos, resolved, offsets,
                           result, count, rd>>
       ELSE /\ last_offset' = goff.offsets[Len(goff.offsets)]
            /\ last_phase' = goff.ih_phase[Len(goff.ih_phase)]
            /\ EnterRead(rd.f, goff.offsets)
    /\ UNCHANGED <<sc, eng, stime, raw_time, tally, old>>

Total == offsets[Len(offsets)]

\* The reader writes the next slice [rd.pos, e) into the sink: one callback.
Deliver(e) ==
    /\ pc = "reading"
    /\ e > rd.pos
    /\ e <= Total
    /\ resolved[1] + rd.pos >= 0
    /\ resolved[1] + e <= sc.M
    /\ ih_pos' = resolved[1] + e
    /\ rd' = [rd EXCEPT !.pos = e]
    /\ IF eng.average /\ OutDtype(eng.average, eng.dtype) # "float"
       THEN /\ pc' = "error"
            /\ err' = "TypeError"
            /\ UNCHANGED <<result, count>>
       ELSE LET r == IF eng.cls = "Fold"
                     THEN Fold_integrate(Cfg, offsets, rd.pos, e, resolved[1],
                                         raw_time, result, count)
                     ELSE IntegrateBase_integrate(offsets, rd.pos, e, resolved[1],
                                                  sc.data, result, count)
            IN  IF r.ok
                THEN /\ result' = r.result
                     /\ count' = r.count
                     /\ UNCHANGED <<pc, err>>
                ELSE /\ pc' = "error"
                     /\ err' = "IndexError"
                     /\ UNCHANGED <<result, count>>
    /\ UNCHANGED <<sc, eng, stime, last_offset, last_phase, goff, raw_time, resolved,
                   offsets, returned, tally, old>>

RECURSIVE SumSeq(_)
SumSeq(q) == IF q = <<>> THEN 0 ELSE Head(q) + SumSeq(Tail(q))

\* All counts of a finished buffer.
CountSum(cnt) ==
    IF eng.cls = "Fold"
    THEN SumSeq([b \in DOMAIN cnt |-> SumSeq(cnt[b])])
    ELSE SumSeq(cnt)

\* The read returned: divide when averaging, and return the frame.
ReadComplete ==
    /\ pc = "reading"
    /\ rd.pos = Total
    /\ IF eng.average /\ OutDtype(eng.average, eng.dtype) # "float"
       THEN /\ pc' = "error"
            /\ err' = "TypeError"
            /\ UNCHANGED <<returned, tally>>
       ELSE /\ pc' = "done"
            /\ returned' = FrameOut(Cfg, eng.average, result, count)
            /\ tally' = IF rd.f = tally.next /\ ~sc.phased /\ eng.cls = "Integrate"
                        THEN [next |-> tally.next + 1,
                              counts |-> tally.counts + CountSum(count)]
                        ELSE tally
            /\ err' = ""
    /\ UNCHANGED <<sc, eng, stime, last_offset, last_phase, goff, ih_pos, raw_time,
                   resolved, offsets, result, count, rd, old>>

\* As ReadRaises, with the exception caught and what has been accumulated
\* handed back.
ReadRaises_Caught(e) ==
    /\ pc = "reading"
    /\ rd.pos # Total
    /\ pc' = "error"
    /\ err' = e
    /\ returned' = FrameOut(Cfg, FALSE, result, count)
    /\ UNCHANGED <<sc, eng, stime, last_offset, last_phase, goff, ih_pos, raw_time,
                   resolved, offsets, result, count, rd, tally, old>>

\* The underlying read raises (the stream ends early, or a frame is corrupt):
\* the exception passes through _read_frame.
ReadRaises(e) ==
    /\ pc = "reading"
    /\ rd.pos # Total
    /\ pc' = "error"
    /\ err' = e
    /\ UNCHANGED <<sc, eng, stime, last_offset, last_phase, goff, ih_pos, raw_time,
                   resolved, offsets, result, count, rd, returned, tally, old>>

StreamErrors == {"EOFError", "ValueError"}

\* The classes whose stop_time is Integrate.stop_time (Stack hands on the
\* stop_time of its Integrate).
HasStopTime == eng.cls \in {"Integrate", "Stack"}

\* A later access of stop_time: the lazyproperty finds the value in the
\* instance __dict__ and the function is not called.
StopTimeCached ==
    /\ Resting
    /\ HasStopTime
    /\ stime.memo # -1
    /\ stime' = [stime EXCEPT !.last = "memo"]
    /\ UNCHANGED <<sc, pc, eng, last_offset, last_phase, goff, ih_pos, raw_time,
                   resolved, offsets, result, count, rd, returned, err, tally, old>>

\* stop_time with no phase function: lines 204-207, up to the seek to raw_stop.
StopTimeFixed ==
    /\ Resting
    /\ HasStopTime
    /\ ~sc.phased
    /\ stime.memo = -1
    /\ stime' = [stime EXCEPT !.active = TRUE, !.back = pc, !.pos0 = ih_pos,
                        !.raw_offset = ih_pos,
                        !.raw_stop = FixedOffset(Cfg, Shape0(Cfg))]
    /\ ih_pos' = FixedOffset(Cfg, Shape0(Cfg))
    /\ pc' = "stop_sought"
    /\ UNCHANGED <<sc, eng, last_offset, last_phase, goff, raw_time, resolved,
                   offsets, result, count, rd, returned, err, tally, old>>

\* stop_time with a phase function: line 204 enters _get_offsets with the
\* scalar self.shape[0].
StopTimePhased ==
    /\ Resting
    /\ HasStopTime
    /\ sc.phased
    /\ stime.memo = -1
    /\ stime' = [stime EXCEPT !.active = TRUE, !.back = pc, !.pos0 = ih_pos]
    /\ goff' = GetOffsetsEntry(Cfg, <<Shape0(Cfg)>>, last_offset, last_phase)
    /\ pc' = "goff"
    /\ UNCHANGED <<sc, eng, last_offset, last_phase, ih_pos, raw_time, resolved,
                   offsets, result, count, rd, returned, err, tally, old>>

\* The search of stop_time ends.  With no pass made, offsets[-1] raises as in
\* GetOffsetsReturn and the exception leaves stop_time before tell().
\* Otherwise lines 232-234 record the search state and return offsets[0],
\* and lines 205-207 take raw_offset = tell() and seek to raw_stop.
StopTimeResolved ==
    /\ pc = "goff"
    /\ stime.active
    /\ ~AnyMask(goff.check)
    /\ goff' = NoGoff
    /\ IF ~goff.isArray
       THEN /\ pc' = stime.back
            /\ stime' = [stime EXCEPT !.active = FALSE, !.back = "idle", !.pos0 = 0,
                         !.last = IF LastOffsetIsInt THEN "TypeError" ELSE "IndexError"]
            /\ UNCHANGED <<last_offset, last_phase, ih_pos>>
       ELSE /\ last_offset' = goff.offsets[Len(goff.offsets)]
            /\ last_phase' = goff.ih_phase[Len(goff.ih_phase)]
            /\ stime' = [stime EXCEPT !.raw_offset = ih_pos, !.raw_stop = goff.offsets[1],
                                !.searched = TRUE]
            /\ ih_pos' = goff.offsets[1]
            /\ pc' = "stop_sought"
    /\ UNCHANGED <<sc, eng, raw_time, resolved, offsets, result, count, rd,
                   returned, err, tally, old>>

\* The locals of stop_time are gone when it has ended.
StopEnded(how, memo) ==
    [stime EXCEPT !.active = FALSE, !.back = "idle", !.pos0 = 0, !.raw_offset = 0,
               !.raw_stop = 0, !.memo = memo, !.last = how]

\* Lines 208-210: self.ih.time is read, the finally clause seeks back, and
\* the lazyproperty stores the value.
StopTimeReturn ==
    /\ pc = "stop_sought"
    /\ ih_pos' = stime.raw_offset
    /\ stime' = StopEnded("computed", stime.raw_stop)
    /\ pc' = stime.back
    /\ UNCHANGED <<sc, eng, last_offset, last_phase, goff, raw_time, resolved,
                   offsets, result, count, rd, returned, err, tally, old>>

\* As StopTimeFails, without the finally clause.
StopTimeFails_NoFinally(e) ==
    /\ pc = "stop_sought"
    /\ stime' = StopEnded(e, stime.memo)
    /\ pc' = stime.back
    /\ UNCHANGED <<sc, eng, last_offset, last_phase, goff, ih_pos, raw_time, resolved,
                   offsets, result, count, rd, returned, err, tally, old>>

\* Lines 208-210 when self.ih.time raises: the finally clause seeks back and
\* the exception leaves stop_time; nothing is stored.
StopTimeFails(e) ==
    /\ pc = "stop_sought"
    /\ ih_pos' = stime.raw_offset
    /\ stime' = StopEnded(e, stime.memo)
    /\ pc' = stime.back
    /\ UNCHANGED <<sc, eng, last_offset, last_phase, goff, raw_time, resolved,
                   offsets, result, count, rd, returned, err, tally, old>>

Next ==
    \/ \E c \in sc.classes, a \in BOOLEAN, d \in sc.dtypes : Construct(c, a, d)
    \/ \E f \in 0..(NumFrames(Cfg) - 1) : ReadFrame(f)
    \/ \E f \in 0..(NumFrames(Cfg) - 1) : ReadFramePhased(f)
    \/ GetOffsetsLoop
    \/ GetOffsetsReturn
    \/ \E e \in 1..(2 * MaxSamples) : Deliver(e)
    \/ ReadComplete
    \/ \E e \in StreamErrors : ReadRaises(e)
    \/ StopTimeCached
    \/ StopTimeFixed
    \/ StopTimePhased
    \/ StopTimeResolved
    \/ StopTimeReturn
    \/ StopTimeFails("ValueError")

Spec == Init /\ [][Next]_vars

-----------------------------------------------------------------------------
(* Properties *)

NonDecreasing(q) == \A k \in 1..(Len(q) - 1) : q[k] <= q[k + 1]

\* A fixed-rate Integrate (no phase function) is constructed.
FixedIntegrate == eng.cls = "Integrate" /\ ~sc.phased

\* Frames 0 .. NumFrames-1 have all been read, in this order.
AllFramesRead == tally.next = NumFrames(Cfg)

\* C1 as stated: for a fixed-rate Integrate over M samples that produces K
\* bins, 1 <= K <= M, after every output frame has been read the counts of
\* all bins sum to M.
C1_CountsSumToM ==
    (FixedIntegrate /\ AllFramesRead /\ 1 <= Shape0(Cfg) /\ Shape0(Cfg) <= sc.M)
        => tally.counts = sc.M

\* C1, amended: for a fixed-rate Integrate, the counts of frames 0 .. F-1 sum
\* to round(F * samples_per_frame * step), the offset of the output index
\* that follows them; so after every frame of K = F * samples_per_frame bins
\* the sum is round(K * step), which is M when K * step = M and is below M
\* when an integer step does not divide M (the last M mod step samples are
\* in no bin).
C1_CountsSumToLastOffset ==
    FixedIntegrate =>
        /\ tally.counts =
               RoundHalfEven(tally.next * sc.spf * StepNum(Cfg), StepDen(Cfg))
        /\ (AllFramesRead /\ NumFrames(Cfg) * sc.spf * StepNum(Cfg) = sc.M * StepDen(Cfg))
               => tally.counts = sc.M
        /\ (AllFramesRead /\ StepDen(Cfg) = 1 /\ NumFrames(Cfg) * sc.spf = Shape0(Cfg))
               => tally.counts = sc.M - (sc.M % StepNum(Cfg))

\* Every frame of an integer step that does not divide M has been read, and
\* the counts sum to less than M.
C1_Witness ==
    /\ FixedIntegrate /\ AllFramesRead /\ pc = "done"
    /\ StepDen(Cfg) = 1 /\ sc.M % StepNum(Cfg) # 0
    /\ Shape0(Cfg) >= 1 /\ Shape0(Cfg) <= sc.M
    /\ tally.counts < sc.M

\* C2: when _read_frame has completed a frame of an engine that accumulates
\* with IntegrateBase._integrate, with normalised offsets o[0..n] (bin edges,
\* so non-decreasing) and the range [0, o[n]) delivered in consecutive slices
\* cut at any points, the count of every bin b is o[b+1] - o[b].
C2_CountIsBinWidth ==
    (pc = "done" /\ eng.cls \in {"Integrate", "Stack"} /\ NonDecreasing(offsets))
        => \A b \in DOMAIN count : count[b] = offsets[b + 1] - offsets[b]

\* A completed frame with bins of widths 1, 0 and 1.
C2_Witness ==
    /\ pc = "done" /\ eng.cls = "Integrate"
    /\ offsets = <<0, 1, 1, 2>>
    /\ count = <<1, 0, 1>>

\* The value the engine returned for bin b of a one-dimensional frame.
SamplesSum(b) ==
    SumData(sc.data, resolved[1] + offsets[b], resolved[1] + offsets[b + 1])

\* C3 as stated: with average=True, in every returned frame a bin of count 0
\* has the value NaN and a bin of count > 0 has the value (sum of the samples
\* attributed to it) / count.
C3_AverageOrNaN ==
    (pc = "done" /\ eng.average /\ eng.cls = "Integrate")
        => \A b \in DOMAIN count :
              returned[b] = IF count[b] = 0 THEN NaN
                            ELSE Div(SamplesSum(b), count[b])

\* C4: a frame of 3 bins with normalised offsets [0, 3, 6, 10] over 10
\* samples, delivered in consecutive slices cut at any points, has the sums
\* of samples 0..2, 3..5 and 6..9 and the counts [3, 3, 4].
C4_BoundaryAttribution ==
    (pc = "done" /\ eng.cls = "Integrate" /\ sc.M = 10
        /\ resolved = <<0, 3, 6, 10>> /\ offsets = <<0, 3, 6, 10>>)
        => /\ count = <<3, 3, 4>>
           /\ result = <<SumData(sc.data, 0, 3), SumData(sc.data, 3, 6),
                         SumData(sc.data, 6, 10)>>

\* The frame of widths 3, 3, 4 has been returned in sum mode.
C4_Witness ==
    /\ pc = "done" /\ eng.cls = "Integrate" /\ ~eng.average /\ sc.M = 10
    /\ offsets = <<0, 3, 6, 10>>
    /\ returned = <<[data |-> 13, count |-> 3], [data |-> 351, count |-> 3],
                    [data |-> 29160, count |-> 4]>>

\* The value of bin b of a one-dimensional sum-mode frame, averaged.
OldAverage(cell) == Div(cell.data, cell.count)

\* C5 as stated: for the same stream, step, samples_per_frame and frame
\* index, data/count of the frame read with average=False equals the frame
\* read with average=True wherever count # 0, and the counts of the two runs
\* are the same.
C5_SumAndAverageAgree ==
    (pc = "done" /\ eng.average /\ old.eng.cls = eng.cls /\ old.f = rd.f)
        => /\ old.count = count
           /\ IF eng.cls = "Fold"
              THEN \A b \in DOMAIN count : \A q \in DOMAIN count[b] :
                      count[b][q] # 0 => OldAverage(old.out[b][q]) = returned[b][q]
              ELSE \A b \in DOMAIN count :
                      count[b] # 0 => OldAverage(old.out[b]) = returned[b]

\* floor(frac(phase) * n_phase) for a phase of p/cyc cycles, with
\* frac(x) = x - floor(x).
FracIndex(s, p) ==
    LET whole == p \div s.cyc
        fracNum == p - whole * s.cyc
    IN  (fracNum * s.n_phase) \div s.cyc

\* The phase of frame-relative sample r of the current Fold frame.
SamplePhase(r) == Phase(Cfg, raw_time + r)

\* Count and sum of the frame's samples r .. Total-1 whose phase bin is q.
RECURSIVE InPhaseBin(_, _, _)
InPhaseBin(r, q, what) ==
    IF r >= Total THEN 0
    ELSE (IF FracIndex(Cfg, SamplePhase(r)) = q
          THEN (IF what = "count" THEN 1 ELSE Data(sc.data, resolved[1] + r))
          ELSE 0) + InPhaseBin(r + 1, q, what)

\* C6: Fold._integrate adds every sample to phase bin
\* floor(frac(phase) * n_phase), which is in 0..n_phase-1 and does not change
\* when whole cycles are added to the phase; samples of one bin accumulate;
\* with 5 samples of a frame all at phase index 2 of 4, phase bin 2 has count
\* 5 and the other bins have count 0.
C6_FoldScatter ==
    (pc = "done" /\ eng.cls = "Fold") =>
        /\ \A q \in 1..sc.n_phase :
              /\ SumSeq([b \in DOMAIN count |-> count[b][q]])
                    = InPhaseBin(0, q - 1, "count")
              /\ SumSeq([b \in DOMAIN result |-> result[b][q]])
                    = InPhaseBin(0, q - 1, "sum")
        /\ \A r \in 0..(Total - 1) :
              /\ PhaseIndex(Cfg, SamplePhase(r)) = FracIndex(Cfg, SamplePhase(r))
              /\ PhaseIndex(Cfg, SamplePhase(r)) \in 0..(sc.n_phase - 1)
              /\ \A k \in -2..2 :
                    PhaseIndex(Cfg, SamplePhase(r) + k * sc.cyc)
                        = PhaseIndex(Cfg, SamplePhase(r))
        /\ (sc.DP = 0 /\ Total = 5 /\ sc.spf = 1 /\ sc.n_phase = 4
                /\ FracIndex(Cfg, sc.P0) = 2)
              => count = << <<0, 0, 5, 0>> >>

\* The frame of 5 samples at constant phase index 2 of 4 has been returned.
C6_Witness ==
    /\ pc = "done" /\ eng.cls = "Fold" /\ sc.DP = 0 /\ sc.n_phase = 4
    /\ count = << <<0, 0, 5, 0>> >>

\* Bin b of the frame of the Integrate that a Stack composes.
StackCell(b) ==
    IF eng.average THEN Div(result[b], count[b])
    ELSE [data |-> result[b], count |-> count[b]]

C8_MonotonicOffsets ==
    resolved # <<>> =>
        /\ Len(resolved) = InnerSpf(Cfg) + 1
        /\ NonDecreasing(resolved)
        /\ (pc = "reading" /\ rd.pos = 0) => ih_pos = resolved[1]

\* C9: when the underlying read raises during a frame request, _read_frame
\* ends with that error, no frame is returned, and the read was issued once.
C9_ReadFailure ==
    (pc = "error" /\ err \in StreamErrors) =>
        /\ returned = NoFrame
        /\ rd.calls = 1

\* A read that had accumulated part of a frame has raised.
C9_Witness ==
    /\ pc = "error" /\ err = "EOFError"
    /\ rd.pos > 0 /\ result # Zeros(Cfg)
    /\ returned = NoFrame

\* The dtype argument does not fit the mode: sum-plus-count output with a
\* dtype that has no data and count fields, or an average with a dtype that
\* cannot hold it.
Incompatible(e) ==
    \/ ~e.average /\ e.dtype \in {"float", "int"}
    \/ e.average /\ e.dtype \in {"int", "struct"}

\* C10 as stated: constructing Integrate or Fold with a dtype that does not
\* fit the mode fails in the constructor, so no such engine reaches a frame
\* read.
C10_RejectedAtConstruction ==
    ~(Incompatible(eng) /\ rd.f >= 0)

\* C10, amended: the constructor accepts any dtype; an engine whose dtype
\* does not fit the mode fails at its frame read and never returns a frame:
\* in sum mode with IndexError at out['data'], before the underlying read is
\* issued, and in average mode with TypeError when the read accumulates into
\* or divides the output (or with the error of the read itself).
C10_FailsAtFrameRead ==
    Incompatible(eng) =>
        /\ returned = NoFrame
        /\ pc # "done"
        /\ (pc = "error" /\ ~eng.average) => (err = "IndexError" /\ rd.calls = 0)
        /\ (pc = "error" /\ eng.average) => (err \in StreamErrors \cup {"TypeError"})

\* An averaging engine with an integer dtype has failed at its frame read.
C10_Witness ==
    /\ Incompatible(eng) /\ eng.average /\ eng.dtype = "int"
    /\ pc = "error" /\ err = "TypeError" /\ rd.f >= 0

\* C11 as stated: for non-decreasing offsets o[0..n], zero-width bins
\* included, and every cut of [0, o[n]) into consecutive slices delivered to
\* IntegrateBase._integrate, the final sum of bin b is the sum of
\* data[o[b] .. o[b+1]-1]: every sample is in exactly one bin, a zero-width
\* bin receives nothing, and the cut does not matter.
C11_SumIsBinSamples ==
    (pc = "done" /\ eng.cls \in {"Integrate", "Stack"} /\ NonDecreasing(offsets))
        => \A b \in DOMAIN result : result[b] = SamplesSum(b)

\* C12 as stated: with samples_per_frame > 1, Fold._integrate adds the sample
\* at frame-relative index r to the time sub-bin b with o[b] <= r < o[b+1],
\* so the counts of sub-bin b, summed over the phase bins, are o[b+1] - o[b],
\* also when a sample lies on an internal edge (r = o[b]).
C12_FoldSubBinIsHalfOpen ==
    (pc = "done" /\ eng.cls = "Fold" /\ sc.spf > 1)
        => \A b \in DOMAIN count : SumSeq(count[b]) = offsets[b + 1] - offsets[b]

\* The step in which _read_frame issues self.ih.read(out=integrating_out).
ReadStarts == pc # "reading" /\ pc' = "reading"

\* The step in which _read_frame returns its frame.
FrameReturns == returned' # NoFrame /\ returned' # returned

\* C13: a frame request resolves samples_per_frame + 1 offsets (for a phase
\* the search has run on exactly these indices before anything else), seeks
\* the stream to the first of them, starts from all-zero sum and count
\* buffers, and issues one read of (last offset - first offset) samples; the
\* buffers change only in callbacks of that read, before the division that
\* makes the returned frame; a request makes no second read.  Stated for the
\* requests that get as far as the read.
C13_FrameDriverOrder ==
    [][ /\ ReadStarts =>
            /\ Len(resolved') = InnerSpf(Cfg) + 1
            /\ sc.phased => /\ pc = "goff"
                            /\ goff.samples = FrameSamples(Cfg, rd'.f)
                            /\ resolved' = goff.offsets
            /\ ~sc.phased => resolved' = FixedOffsets(Cfg, FrameSamples(Cfg, rd'.f))
            /\ ih_pos' = resolved'[1]
            /\ result' = Zeros(Cfg)
            /\ count' = Zeros(Cfg)
            /\ rd'.calls = 1
            /\ rd'.pos = 0
            /\ offsets'[1] = 0
            /\ offsets'[Len(offsets')] = resolved'[Len(resolved')] - resolved'[1]
        /\ (pc = "reading" /\ pc' = "reading") =>
            /\ rd'.calls = 1
            /\ rd'.f = rd.f
            /\ rd'.pos > rd.pos
            /\ rd'.pos <= offsets[Len(offsets)]
            /\ UNCHANGED <<offsets, resolved>>
        /\ (result' # result \/ count' # count) =>
            \/ ReadStarts
            \/ pc = "reading" /\ pc' = "reading"
            \/ pc' = "idle"
        /\ FrameReturns =>
            /\ pc = "reading"
            /\ pc' = "done"
            /\ rd.calls = 1
            /\ rd.pos = offsets[Len(offsets)]
            /\ returned' = FrameOut(Cfg, eng.average, result, count)
            /\ UNCHANGED <<result, count, rd>>
      ]_vars

\* Frame 0 of a time integration with several samples per frame is returned
\* again after frames 0 and 1 have been read.
C13_Witness ==
    /\ pc = "done"
    /\ FixedIntegrate
    /\ sc.spf > 1
    /\ tally.next >= 2
    /\ rd.f = 0
    /\ rd.calls = 1
    /\ returned # NoFrame

\* r is x = num / den rounded to the nearest integer, halves to the even one.
IsNearest(r, num, den) ==
    /\ 2 * Abs(r * den - num) <= den
    /\ 2 * Abs(r * den - num) = den => r % 2 = 0

\* C14: with no phase function every resolved offset is round(index * step),
\* step being input samples per output sample, whatever frames were asked for
\* before; for an integer step n it is index * n; and _last_offset and
\* _last_phase are still the values that __init__ gave them.
C14_FixedRateIsPure ==
    (~sc.phased /\ eng.cls # "none") =>
        /\ last_offset = 0
        /\ last_phase = Phase(sc, 0)
        /\ goff = NoGoff
        /\ \A k \in DOMAIN resolved :
              LET i == rd.f * sc.spf + (k - 1)
              IN  /\ IsNearest(resolved[k], i * StepNum(sc), StepDen(sc))
                  /\ StepDen(sc) = 1 => resolved[k] = i * StepNum(sc)

\* Frame 0 of a time integration with a step of 5/2 samples is resolved again
\* after frames 0 and 1 have been read: index 1 lies at 2.5, index 2 at 5.
C14_Witness ==
    /\ FixedIntegrate
    /\ sc.step = <<5, 2>>
    /\ tally.next >= 2
    /\ rd.f = 0
    /\ resolved = <<0, 2, 5>>

\* C15 as stated: after a completed phase-driven _get_offsets, _last_offset
\* is the offset resolved for the last requested index and _last_phase is
\* the phase of the stream at that offset.  Stated of the frame requests of
\* an engine whose stop_time has made no search.
C15_SearchStateIsLastIndex ==
    (sc.phased /\ resolved # <<>> /\ ~stime.searched) =>
        /\ last_offset = resolved[Len(resolved)]
        /\ last_phase = Phase(Cfg, last_offset)

\* C16 as stated: on a phase that advances by the same amount in every input
\* sample the loop of _get_offsets ends, and when it has ended the rounded
\* correction of every resolved offset against its target phase is zero.
C16_SearchTerminates ==
    /\ pc # "hang"
    /\ (pc = "goff" /\ ~AnyMask(goff.check) /\ goff.isArray) =>
          \A k \in DOMAIN goff.offsets :
              StepCheck(Cfg, TargetPhase(Cfg, goff.samples[k]),
                        Phase(Cfg, goff.offsets[k])) = 0

\* Passes of the search that a first request of a new engine is followed for.
MaxPasses == 8

\* The while loop of _get_offsets run from the locals g, for at most fuel passes.
RECURSIVE SearchFrom(_, _, _)
SearchFrom(s, g, fuel) ==
    IF ~AnyMask(g.check) \/ fuel = 0
    THEN g
    ELSE SearchFrom(s, GetOffsetsPass(s, g), fuel - 1)

\* What _get_offsets resolves for frame f as the first request of a new
\* engine (_last_offset = 0, _last_phase = start).
FirstRequest(s, f) ==
    SearchFrom(s, GetOffsetsEntry(s, FrameSamples(s, f), 0, Phase(s, 0)), MaxPasses)

\* C17 as stated: the offsets resolved for a frame by a phase-driven engine
\* are those a new engine resolves for it as its first request, whatever
\* requests came before; so the last offset of frame N is the first offset of
\* frame N + 1.
C17_OffsetsIgnoreHistory ==
    (sc.phased /\ resolved # <<>> /\ pc \in {"reading", "done"}) =>
        /\ ~AnyMask(FirstRequest(Cfg, rd.f).check)
        /\ resolved = FirstRequest(Cfg, rd.f).offsets
        /\ resolved[Len(resolved)] = FirstRequest(Cfg, rd.f + 1).offsets[1]

\* The step in which an evaluation of stop_time ends, by return or by raise.
StopTimeEnds == stime.active /\ ~stime'.active

\* C18: when an evaluation of Integrate.stop_time ends, with the value or with
\* the exception of the time read or of the search, the stream is where
\* tell() had it when the evaluation began; a value is stored only by an
\* evaluation that returned and only when none was stored, it never changes
\* afterwards, no evaluation starts while one is stored, and an access that
\* finds it moves neither the stream nor the search state.
C18_StopTimeRestoresPosition ==
    [][ /\ StopTimeEnds => ih_pos' = stime.pos0
        /\ (StopTimeEnds /\ pc = "stop_sought") =>
              /\ stime.raw_offset = stime.pos0
              /\ ih_pos = stime.raw_stop
        /\ (stime'.memo # stime.memo /\ pc' # "idle") =>
              /\ stime.memo = -1
              /\ StopTimeEnds
              /\ stime'.last = "computed"
              /\ stime'.memo = stime.raw_stop
        /\ stime.memo # -1 =>
              /\ ~stime'.active
              /\ stime' # stime =>
                    \/ pc' = "idle" /\ stime' = NoStop
                    \/ /\ stime'.last = "memo"
                       /\ UNCHANGED <<pc, ih_pos, last_offset, last_phase, goff>>
      ]_vars

\* stop_time has been evaluated and stored after frame 0 was read: the
\* stream stands at the end of that frame again, not at the stop offset.
C18_Witness ==
    /\ stime.last = "computed"
    /\ pc = "done"
    /\ rd.f = 0
    /\ ih_pos = resolved[Len(resolved)]
    /\ ih_pos # stime.memo

\* C19 as stated: a phase-driven _get_offsets whose indices all have a zero
\* first step, as that of stop_time after the final frame was read, returns
\* without error.
C19_ZeroStepCompletes ==
    stime.last \notin {"TypeError", "IndexError"}

=============================================================================
